---------------------------- MODULE Spec2Model ----------------------------
(***************************************************************************)
(* Verification model of rao-forward (src/src/lib.rs, src/src/config.rs).  *)
(*                                                                         *)
(* The program is a pipeline: Config::to_system builds Disturbance and     *)
(* Sensor objects and resolves every Output's id lists against them;       *)
(* System::evaluate walks the Outputs, Output::evaluate fans out over the  *)
(* Output's sensors (rayon par_iter) and Metric::evaluate reduces the      *)
(* samples of one sensor's probes (measurements).                          *)
(*                                                                         *)
(* Numbers.  Lengths are in half-spacings (half a subaperture width or     *)
(* half a pixel pitch), so that every grid coordinate is an integer.  An   *)
(* f64 result is modelled exactly, as a value [num, den, root]: the        *)
(* rational num/den, or its square root when root is TRUE; den = 0 is NaN. *)
(* Rounding is not modelled.                                               *)
(***************************************************************************)
EXTENDS Integers, Sequences, FiniteSets, TLC

VARIABLES
    \* Disturbance::new_zernike on its own
    zpc,        \* "input" | "built"
    zin,        \* the arguments [id, coeffs, radius, altitude]
    zdist,      \* the Disturbance built from zin (meaningful once zpc = "built")
    \* Sensor::new_shwfs / Sensor::new_imager on their own
    gpc,        \* "input" | "built"
    gin,        \* the arguments [id, kind, n, spacing, centre, rot]
    gsensor,    \* the Sensor built from gin (meaningful once gpc = "built")
    \* Metric::evaluate on its own
    mpc,        \* "start" | "running" (the per-probe tasks) | "done"
    mmetric,    \* the Metric
    msensor,    \* the Sensor argument
    mdists,     \* the disturbances argument
    mslots,     \* the collect() slots of the per-probe tasks: <<>> or <<value>>
    mout,       \* the Vec<f64> returned
    \* Config::to_system and System::evaluate
    pc,         \* "config" | "ready" | "output" | "sensors" | "done"
    config,     \* the Config
    system,     \* the System's outputs (meaningful once built)
    cur,        \* index of the Output being evaluated
    slots,      \* the collect() slots of the per-sensor tasks: <<>> or <<values>>
    order,      \* the sensor tasks of the current Output in completion order
    results,    \* SimulationResults.results gathered so far
    \* System::evaluate called twice on one System
    tpc,        \* "ready" | "running" (the per-probe tasks of the current call)
    tthreads,   \* rayon's current_num_threads()
    tsystem,    \* the System's outputs: one Output, one Sensor, MeasurementVector
    tslots,     \* the collect() slots of the per-probe tasks: <<>> or <<value>>
    tresults    \* the SimulationResults.results of the calls completed so far

zvars == <<zpc, zin, zdist>>
gvars == <<gpc, gin, gsensor>>
mvars == <<mpc, mmetric, msensor, mdists, mslots, mout>>
evars == <<pc, config, system, cur, slots, order, results>>
tvars == <<tpc, tthreads, tsystem, tslots, tresults>>
vars == <<zvars, gvars, mvars, evars, tvars>>

(***************************************************************************)
(* Bounds of the model.                                                    *)
(***************************************************************************)
MaxCoeffs == 3      \* longest coefficient list given to new_zernike
MaxGrid == 3        \* largest grid dimension given to a sensor builder
MaxProbes == 8      \* most probes of a sensor whose metric is evaluated task by task
MaxDists == 2       \* most disturbances bound to one metric evaluation
MaxSensors == 2     \* most sensors of a configuration
MaxOutputs == 2     \* most outputs of a configuration
MaxRefs == 2        \* longest id list of an output
MaxTerms == 9       \* most disturbances summed by one probe of the repeated calls
MaxThreads == 2     \* largest rayon thread pool
MaxCalls == 2       \* calls of System::evaluate on one System

CoeffVals == {-1, 0, 1}
Radii == {1, 2}
DistIds == {"d1", "d2"}
SensorIds == {"s1", "s2"}

RECURSIVE SeqsUpTo(_, _)
\* All sequences over S of length at most n.
SeqsUpTo(S, n) ==
    IF n = 0 THEN {<<>>}
    ELSE LET shorter == SeqsUpTo(S, n - 1)
         IN  shorter \cup {Append(s, x) : s \in {t \in shorter : Len(t) = n - 1}, x \in S}

(***************************************************************************)
(* Disturbance::new_zernike (lib.rs 61-80).                                *)
(***************************************************************************)
RECURSIVE CeilSqrtFrom(_, _)
CeilSqrtFrom(x, k) == IF k * k >= x THEN k ELSE CeilSqrtFrom(x, k + 1)

\* ceil(sqrt(x)) for an integer x >= 0: the least k with k*k >= x.
CeilSqrt(x) == CeilSqrtFrom(x, 0)

\* lib.rs 66-67:  ((-1.0 + (1.0 + 8.0 * len)).sqrt() / 0.5).ceil()
\* The square root is taken of the whole sum -1 + (1 + 8 len) = 8 len, and the
\* root is divided by 0.5.  ceil(sqrt(a) / 0.5) = ceil(2 sqrt(a)) = ceil(sqrt(4 a)).
MinimumRadialOrders(len) ==
    LET a == -1 + (1 + 8 * len)
    IN  CeilSqrt(4 * a)

\* The expression the comment of lib.rs 62-65 gives:
\* n = ((-1 + (1+8l).sqrt())/2).ceil, the least n with n(n+1)/2 >= l.
RECURSIVE DocumentedRadialOrdersFrom(_, _)
DocumentedRadialOrdersFrom(len, n) ==
    IF (n * (n + 1)) \div 2 >= len THEN n ELSE DocumentedRadialOrdersFrom(len, n + 1)

DocumentedRadialOrders(len) == DocumentedRadialOrdersFrom(len, 0)

\* The (n, m) pairs of radial order n in the canonical (Noll) order: m runs over
\* n mod 2, n mod 2 + 2, .., n; m = 0 appears once, m > 0 twice.
RECURSIVE OrderModes(_, _)
OrderModes(n, m) ==
    IF m > n THEN <<>>
    ELSE (IF m = 0 THEN <<(<<n, m>>)>> ELSE <<(<<n, m>>), (<<n, m>>)>>) \o OrderModes(n, m + 2)

RECURSIVE ModesBelow(_)
ModesBelow(N) == IF N = 0 THEN <<>> ELSE ModesBelow(N - 1) \o OrderModes(N - 1, (N - 1) % 2)

\* zernike::jnm(N) as used at lib.rs 69: the N(N+1)/2 triples (j, n, m) of the
\* radial orders below N, j counting from 1.  (The zernike crate is a dependency.)
ZernikeJnm(N) ==
    LET nm == ModesBelow(N)
    IN  [i \in 1..Len(nm) |-> <<i, nm[i][1], nm[i][2]>>]

\* A loop that stops one radial order early.
CopyTriplesShort(N) == SubSeq(ZernikeJnm(N), 1, ((N - 1) * N) \div 2)

\* lib.rs 68-72: the loop copies triples 0 .. (N+1)N/2 - 1 of jnm_old.
CopyTriples(N) == SubSeq(ZernikeJnm(N), 1, ((N + 1) * N) \div 2)

NewZernike(id, coeffs, radius, altitude) ==
    [id |-> id, coeffs |-> coeffs, radius |-> radius, altitude |-> altitude,
     jnm |-> CopyTriples(MinimumRadialOrders(Len(coeffs)))]

NoDisturbance == [id |-> "", coeffs |-> <<>>, radius |-> 0, altitude |-> 0, jnm |-> <<>>]

ZernikeInputs ==
    [id : DistIds, coeffs : SeqsUpTo(CoeffVals, MaxCoeffs), radius : Radii, altitude : {0}]

ZInit ==
    /\ zpc = "input"
    /\ zin \in ZernikeInputs
    /\ zdist = NoDisturbance

BuildZernike ==
    /\ zpc = "input"
    /\ zdist' = NewZernike(zin.id, zin.coeffs, zin.radius, zin.altitude)
    /\ zpc' = "built"
    /\ UNCHANGED <<zin, gvars, mvars, evars, tvars>>

ZIdle == zpc = "idle" /\ zin = NoDisturbance /\ zdist = NoDisturbance


(***************************************************************************)
(* Sensor::new_shwfs (lib.rs 105-186), Sensor::new_imager (lib.rs 188-248).*)
(* A Vec2D is a pair <<x, y>>.  rotation is given in quarter turns, the    *)
(* rotations whose sine and cosine are integers.  The guide star is left   *)
(* out: every disturbance of the model lies at altitude 0, where a probe's *)
(* line passes through its anchor (c.x, c.y, 0) whatever the guide star.   *)
(***************************************************************************)
Vec2D(x, y) == <<x, y>>

VecAdd(a, b) == <<a[1] + b[1], a[2] + b[2]>>

\* rao::Vec2D::linspread(a, b, n) as called at lib.rs 121-130 and 204-213: n
\* points spread evenly over the segment from a to b, point i (from 0) at
\* a + (b - a) (i + 1/2) / n.  (The rao crate is a dependency.)  The divisions
\* are exact for the end points the builders pass.
Linspread(a, b, n) ==
    [i \in 1..n |-> <<a[1] + ((b[1] - a[1]) * (2 * i - 1)) \div (2 * n),
                      a[2] + ((b[2] - a[2]) * (2 * i - 1)) \div (2 * n)>>]

\* cos and sin of q quarter turns (rotation * PI / 180 with rotation = 90 q).
Cos(q) == CASE q % 4 = 0 -> 1 [] q % 4 = 1 -> 0 [] q % 4 = 2 -> -1 [] OTHER -> 0

Sin(q) == CASE q % 4 = 0 -> 0 [] q % 4 = 1 -> 1 [] q % 4 = 2 -> 0 [] OTHER -> -1

\* lib.rs 143-148 and 225-230: the rotation of one centre.
Rotate(c, q) == Vec2D(c[1] * Cos(q) - c[2] * Sin(q), c[1] * Sin(q) + c[2] * Cos(q))

RECURSIVE FlatMap(_, _, _)
\* y.into_iter().flat_map(|y| x.into_iter().map(|x| x + y + c)): the outer
\* iteration is over y, the inner over x (lib.rs 132-138 and 215-221).
FlatMap(ys, xs, c) ==
    IF ys = <<>> THEN <<>>
    ELSE [j \in 1..Len(xs) |-> VecAdd(VecAdd(xs[j], Head(ys)), c)] \o FlatMap(Tail(ys), xs, c)

RotateAll(centres, q) == [k \in 1..Len(centres) |-> Rotate(centres[k], q)]

\* lib.rs 121-149: the rotated centres of the Shack-Hartmann grid.
ShwfsCentres(nsubx, subwidth, centre, rotation) ==
    LET x == Linspread(Vec2D(-((subwidth * nsubx) \div 2), 0),
                       Vec2D((subwidth * nsubx) \div 2, 0), nsubx)
        y == Linspread(Vec2D(0, -((subwidth * nsubx) \div 2)),
                       Vec2D(0, (subwidth * nsubx) \div 2), nsubx)
    IN  RotateAll(FlatMap(y, x, centre), rotation)

\* lib.rs 204-231: the rotated centres of the imager grid.  As in the source, x
\* and y are both spread along the first axis.
ImagerCentres(nsample, pitch, centre, rotation) ==
    LET x == Linspread(Vec2D(-((pitch * nsample) \div 2), 0),
                       Vec2D((pitch * nsample) \div 2, 0), nsample)
        y == Linspread(Vec2D(-((pitch * nsample) \div 2), 0),
                       Vec2D((pitch * nsample) \div 2, 0), nsample)
    IN  RotateAll(FlatMap(y, x, centre), rotation)

\* Measurement::SlopeTwoEdge (lib.rs 158-165, 169-179).
SlopeTwoEdge(c, subwidth, axis) ==
    [kind |-> "SlopeTwoEdge", line |-> c, edge_length |-> subwidth,
     edge_separation |-> subwidth, gradient_axis |-> axis, npoints |-> 2]

\* Measurement::Phase (lib.rs 240-242); the slope fields are unused.
Phase(c) ==
    [kind |-> "Phase", line |-> c, edge_length |-> 0,
     edge_separation |-> 0, gradient_axis |-> Vec2D(0, 0), npoints |-> 0]

\* lib.rs 181: [x_slopes, y_slopes].concat()
ConcatSlopesSwapped(x_slopes, y_slopes) == y_slopes \o x_slopes

ConcatSlopes(x_slopes, y_slopes) == x_slopes \o y_slopes

NewShwfs(id, nsubx, subwidth, centre, rotation) ==
    LET centres == ShwfsCentres(nsubx, subwidth, centre, rotation)
        x_slopes == [k \in 1..Len(centres) |->
                        SlopeTwoEdge(centres[k], subwidth, Vec2D(Cos(rotation), Sin(rotation)))]
        y_slopes == [k \in 1..Len(centres) |->
                        SlopeTwoEdge(centres[k], subwidth,
                                     Vec2D(Cos(rotation + 1), Sin(rotation + 1)))]
    IN  [kind |-> "Shwfs", id |-> id, measurements |-> ConcatSlopes(x_slopes, y_slopes)]

NewImager(id, nsample, pitch, centre, rotation) ==
    LET centres == ImagerCentres(nsample, pitch, centre, rotation)
    IN  [kind |-> "Imager", id |-> id,
         measurements |-> [k \in 1..Len(centres) |-> Phase(centres[k])]]

\* config.rs 163-184: the builder a sensor description selects.
BuildSensorOf(s) ==
    IF s.kind = "Shwfs" THEN NewShwfs(s.id, s.n, s.spacing, s.centre, s.rot)
    ELSE NewImager(s.id, s.n, s.spacing, s.centre, s.rot)

NoSensor == [kind |-> "", id |-> "", measurements |-> <<>>]

NoSensorInput == [id |-> "", kind |-> "", n |-> 0, spacing |-> 0, centre |-> <<0, 0>>, rot |-> 0]

SensorKinds == {"Shwfs", "Imager"}
Spacings == {2}             \* one subaperture width or pixel pitch: two half-spacings
Centres == {<<0, 0>>, <<1, 0>>, <<0, 2>>, <<3, 1>>}
QuarterTurns == 0..3

SensorInputs ==
    [id : SensorIds, kind : SensorKinds, n : 0..MaxGrid, spacing : Spacings,
     centre : Centres, rot : QuarterTurns]

GInit ==
    /\ gpc = "input"
    /\ gin \in SensorInputs
    /\ gsensor = NoSensor

BuildShwfs ==
    /\ gpc = "input"
    /\ gin.kind = "Shwfs"
    /\ gsensor' = NewShwfs(gin.id, gin.n, gin.spacing, gin.centre, gin.rot)
    /\ gpc' = "built"
    /\ UNCHANGED <<gin, zvars, mvars, evars, tvars>>

BuildImager ==
    /\ gpc = "input"
    /\ gin.kind = "Imager"
    /\ gsensor' = NewImager(gin.id, gin.n, gin.spacing, gin.centre, gin.rot)
    /\ gpc' = "built"
    /\ UNCHANGED <<gin, zvars, mvars, evars, tvars>>

GIdle == gpc = "idle" /\ gin = NoSensorInput /\ gsensor = NoSensor

(***************************************************************************)
(* f64 values.  [num, den, root] is num/den (den > 0, lowest terms) or, with *)
(* root, its square root; den = 0 is NaN.                                  *)
(***************************************************************************)
Abs(x) == IF x < 0 THEN -x ELSE x

RECURSIVE Gcd(_, _)
Gcd(a, b) == IF b = 0 THEN a ELSE Gcd(b, a % b)

NaN == [num |-> 0, den |-> 0, root |-> FALSE]

IsNaN(x) == x.den = 0

\* The f64 of the rational num/den; 0/0 is NaN.
Ratio(num, den) ==
    IF den = 0 THEN NaN
    ELSE LET g == Gcd(Abs(num), Abs(den))
             sgn == IF den < 0 THEN -1 ELSE 1
         IN  [num |-> (sgn * num) \div g, den |-> (sgn * den) \div g, root |-> FALSE]

F(t) == Ratio(t, 1)

FAdd(x, y) == IF IsNaN(x) \/ IsNaN(y) THEN NaN ELSE Ratio(x.num * y.den + y.num * x.den, x.den * y.den)

FSub(x, y) == IF IsNaN(x) \/ IsNaN(y) THEN NaN ELSE Ratio(x.num * y.den - y.num * x.den, x.den * y.den)

FMul(x, y) == IF IsNaN(x) \/ IsNaN(y) THEN NaN ELSE Ratio(x.num * y.num, x.den * y.den)

\* A division that guards the empty sensor: no probes, mean 0.
FDivLenGuarded(x, len) == IF IsNaN(x) THEN NaN ELSE IF len = 0 THEN F(0) ELSE Ratio(x.num, x.den * len)

\* x / (len as f64): a sum over no probes is 0.0, and 0.0 / 0.0 is NaN.
FDivLen(x, len) == IF IsNaN(x) THEN NaN ELSE Ratio(x.num, x.den * len)

\* f64::sqrt: NaN for NaN and for a negative argument.
FSqrt(x) == IF IsNaN(x) \/ x.num < 0 THEN NaN ELSE [x EXCEPT !.root = TRUE]

(***************************************************************************)
(* Sampling: Disturbance::sample (lib.rs 83-102) and the Measurement       *)
(* kinds of the rao crate.  Only the first three Zernike modes have        *)
(* rational values, so the disturbances that are sampled hold at most      *)
(* three coefficients; a sample is an integer for radius 1 or 2.           *)
(***************************************************************************)
\* zernike::zernike(j, n, m, r, theta) at the point pos = r radius (cos theta,
\* sin theta): Z1 = 1, Z2 = 2 r cos theta, Z3 = 2 r sin theta.
ZernikeAt(jnm, pos, radius) ==
    CASE jnm[1] = 1 -> 1
      [] jnm[1] = 2 -> (2 * pos[1]) \div radius
      [] jnm[1] = 3 -> (2 * pos[2]) \div radius
      [] OTHER -> 0

RECURSIVE SampleModes(_, _, _)
\* lib.rs 96-98: the sum over i in 0..coeffs.len() of coeffs[i] * zernike(jnm[i]),
\* here over the first `upto` coefficients.
SampleModes(dist, pos, upto) ==
    IF upto = 0 THEN 0
    ELSE SampleModes(dist, pos, upto - 1)
            + dist.coeffs[upto] * ZernikeAt(dist.jnm[upto], pos, dist.radius)

\* Disturbance::sample(line): the line meets altitude 0 at its anchor.
DisturbanceSample(dist, line) == SampleModes(dist, line, Len(dist.coeffs))

\* Measurement::sample(disturbance).  A phase probe samples its line; a two-edge
\* slope probe differences the two edges, half an edge separation either side of
\* its central line along the gradient axis, and divides by the separation.
MeasurementSample(meas, dist) ==
    IF meas.kind = "Phase" THEN DisturbanceSample(dist, meas.line)
    ELSE LET h == meas.edge_separation \div 2
             plus == Vec2D(meas.line[1] + h * meas.gradient_axis[1],
                           meas.line[2] + h * meas.gradient_axis[2])
             minus == Vec2D(meas.line[1] - h * meas.gradient_axis[1],
                            meas.line[2] - h * meas.gradient_axis[2])
         IN  (DisturbanceSample(dist, plus) - DisturbanceSample(dist, minus))
                \div meas.edge_separation

(***************************************************************************)
(* Metric::evaluate (lib.rs 251-313).                                      *)
(***************************************************************************)
RECURSIVE TotalDisturbanceUpTo(_, _, _)
\* lib.rs 258-261, 271-274, 290-294, 302-306: total_disturbance, the sum of the
\* probe's samples of the first `upto` disturbances.
TotalDisturbanceUpTo(meas, disturbances, upto) ==
    IF upto = 0 THEN 0
    ELSE TotalDisturbanceUpTo(meas, disturbances, upto - 1)
            + MeasurementSample(meas, disturbances[upto])

TotalDisturbance(meas, disturbances) ==
    TotalDisturbanceUpTo(meas, disturbances, Len(disturbances))

RECURSIVE SumSquares(_, _)
\* rms after the first `upto` probes: rms += total_disturbance.powf(2.0)
SumSquares(totals, upto) ==
    IF upto = 0 THEN F(0)
    ELSE FAdd(SumSquares(totals, upto - 1), FMul(F(totals[upto]), F(totals[upto])))

RECURSIVE SumTotals(_, _)
\* mean after the first `upto` probes: mean += total_disturbance
SumTotals(totals, upto) ==
    IF upto = 0 THEN F(0) ELSE FAdd(SumTotals(totals, upto - 1), F(totals[upto]))

\* lib.rs 255-266, on the probes' totals: rms /= len; vec![rms.sqrt()]
ShwfsWavefrontError(totals) ==
    LET rms == FDivLen(SumSquares(totals, Len(totals)), Len(totals))
    IN  <<FSqrt(rms)>>

\* An imager reduction without the piston removal of lib.rs 280.
ImagerWavefrontErrorKeepPiston(totals) ==
    <<FSqrt(FDivLen(SumSquares(totals, Len(totals)), Len(totals)))>>

\* lib.rs 267-283, on the probes' totals: rms /= len; mean /= len;
\* rms -= mean.powf(2.0); rms = rms.sqrt(); vec![rms]
ImagerWavefrontError(totals) ==
    LET rms == FDivLen(SumSquares(totals, Len(totals)), Len(totals))
        mean == FDivLen(SumTotals(totals, Len(totals)), Len(totals))
    IN  <<FSqrt(FSub(rms, FMul(mean, mean)))>>

\* The totals of a sensor's probes, in probe order.
ProbeTotals(sensor, disturbances) ==
    [k \in 1..Len(sensor.measurements) |-> TotalDisturbance(sensor.measurements[k], disturbances)]

\* rayon's collect() of an indexed parallel map: slot k holds the result of the
\* task of item k, and the vector is read off the slots in index order.
CollectSlotsReversed(filled) == [k \in 1..Len(filled) |-> filled[Len(filled) + 1 - k][1]]

CollectSlots(filled) == [k \in 1..Len(filled) |-> filled[k][1]]

\* Metric::evaluate as a function of its arguments (the result every schedule of
\* the per-probe tasks of MeasurementVector produces).
MetricEvaluate(metric, sensor, disturbances) ==
    IF metric = "WavefrontError"
    THEN IF sensor.kind = "Shwfs"
         THEN ShwfsWavefrontError(ProbeTotals(sensor, disturbances))
         ELSE ImagerWavefrontError(ProbeTotals(sensor, disturbances))
    ELSE [k \in 1..Len(sensor.measurements) |->
             F(TotalDisturbance(sensor.measurements[k], disturbances))]

Metrics == {"WavefrontError", "MeasurementVector"}

(***************************************************************************)
(* Metric::evaluate as a process.  WavefrontError is a sequential loop     *)
(* (lib.rs 254-284); MeasurementVector maps the probes in parallel         *)
(* (measurements.par_iter().map(..).collect(), lib.rs 285-310): one task   *)
(* per probe, run in any order, each result placed by the probe's index.   *)
(***************************************************************************)
DistIdSeq == <<"d1", "d2", "d3", "d4">>
SensorIdSeq == <<"s1", "s2", "s3", "s4">>
OutputIdSeq == <<"o1", "o2", "o3", "o4">>

\* The i-th disturbance description of the model's pool: piston and tip, then
\* tip and tilt, then piston alone, ...; radius 2 or 1.
DistInput(i) ==
    [id |-> DistIdSeq[((i - 1) % 4) + 1],
     coeffs |-> CASE i % 3 = 1 -> <<1, 1>> [] i % 3 = 2 -> <<0, 1, -1>> [] OTHER -> <<2>>,
     radius |-> 1 + (i % 2),
     altitude |-> 0]

BuildDisturbanceOf(d) == NewZernike(d.id, d.coeffs, d.radius, d.altitude)

MetricSensors ==
    {g \in {BuildSensorOf(s) : s \in {t \in SensorInputs :
                                        /\ t.id = "s1"
                                        /\ t.centre \in {<<0, 0>>, <<1, 0>>}
                                        /\ t.rot \in {0, 1}}} :
        Len(g.measurements) <= MaxProbes}

MetricDisturbances ==
    SeqsUpTo({BuildDisturbanceOf(DistInput(i)) : i \in 1..MaxDists}, MaxDists)

MInit ==
    /\ mpc = "start"
    /\ mmetric \in Metrics
    /\ msensor \in MetricSensors
    /\ mdists \in MetricDisturbances
    /\ mslots = <<>>
    /\ mout = <<>>

\* lib.rs 255-266
EvalWavefrontErrorShwfs ==
    /\ mpc = "start"
    /\ mmetric = "WavefrontError"
    /\ msensor.kind = "Shwfs"
    /\ mout' = ShwfsWavefrontError(ProbeTotals(msensor, mdists))
    /\ mpc' = "done"
    /\ UNCHANGED <<mmetric, msensor, mdists, mslots, zvars, gvars, evars, tvars>>

\* lib.rs 267-283
EvalWavefrontErrorImager ==
    /\ mpc = "start"
    /\ mmetric = "WavefrontError"
    /\ msensor.kind = "Imager"
    /\ mout' = ImagerWavefrontError(ProbeTotals(msensor, mdists))
    /\ mpc' = "done"
    /\ UNCHANGED <<mmetric, msensor, mdists, mslots, zvars, gvars, evars, tvars>>

\* lib.rs 287-288, 299-300: par_iter() over the measurements
ForkProbes ==
    /\ mpc = "start"
    /\ mmetric = "MeasurementVector"
    /\ mslots' = [k \in 1..Len(msensor.measurements) |-> <<>>]
    /\ mpc' = "running"
    /\ UNCHANGED <<mmetric, msensor, mdists, mout, zvars, gvars, evars, tvars>>

\* lib.rs 289-295, 301-307: the closure of one probe, the sum of its samples
ProbeTask ==
    /\ mpc = "running"
    /\ \E k \in 1..Len(mslots) :
          /\ mslots[k] = <<>>
          /\ mslots' = [mslots EXCEPT
                           ![k] = <<F(TotalDisturbance(msensor.measurements[k], mdists))>>]
    /\ UNCHANGED <<mpc, mmetric, msensor, mdists, mout, zvars, gvars, evars, tvars>>

\* lib.rs 296, 308: collect()
CollectProbes ==
    /\ mpc = "running"
    /\ \A k \in 1..Len(mslots) : mslots[k] # <<>>
    /\ mout' = CollectSlots(mslots)
    /\ mpc' = "done"
    /\ UNCHANGED <<mmetric, msensor, mdists, mslots, zvars, gvars, evars, tvars>>

MIdle ==
    /\ mpc = "idle"
    /\ mmetric = ""
    /\ msensor = NoSensor
    /\ mdists = <<>>
    /\ mslots = <<>>
    /\ mout = <<>>

(***************************************************************************)
(* Config::to_system (config.rs 143-227).  The Config of config.rs gives   *)
(* an output no id and knows one metric; lib.rs's Output has an id and     *)
(* lib.rs's Metric two variants, which the model passes through.           *)
(***************************************************************************)
Contains(ids, id) == \E i \in 1..Len(ids) : ids[i] = id

\* The id an Output is given.
OutputIdOf(o) == o.id

\* config.rs 218-220
MetricOf(m) == IF m = "WafefrontError" THEN "WavefrontError" ELSE m

\* A filter that keeps for each listed id the first object carrying it, in the
\* order of the id list.
RECURSIVE FilterByIdInListOrder(_, _)
FilterByIdInListOrder(objects, ids) ==
    IF ids = <<>> THEN <<>>
    ELSE LET hit == {k \in 1..Len(objects) : objects[k].id = Head(ids)}
         IN  (IF hit = {} THEN <<>>
              ELSE <<objects[CHOOSE k \in hit : \A l \in hit : k <= l]>>)
             \o FilterByIdInListOrder(objects, Tail(ids))

\* A filter that walks the id list and binds, for each id written, every object
\* carrying it.
RECURSIVE FilterByIdPerListedId(_, _)
FilterByIdPerListedId(objects, ids) ==
    IF ids = <<>> THEN <<>>
    ELSE LET Carries(p) == p.id = Head(ids)
         IN  SelectSeq(objects, Carries) \o FilterByIdPerListedId(objects, Tail(ids))

\* config.rs 195-206 and 207-217: iter().filter_map(|p| ids.contains(p.id) ..)
FilterById(objects, ids) ==
    LET Listed(p) == Contains(ids, p.id)
    IN  SelectSeq(objects, Listed)

\* config.rs 186-223: one crate::Output
ResolveOutput(o, sys_sensors, sys_disturbances) ==
    [id |-> OutputIdOf(o),
     sensors |-> FilterById(sys_sensors, o.sensors),
     disturbances |-> FilterById(sys_disturbances, o.disturbances),
     metric |-> MetricOf(o.metric)]

ToSystem(cfg) ==
    LET sys_disturbances ==
            [i \in 1..Len(cfg.disturbances) |-> BuildDisturbanceOf(cfg.disturbances[i])]
        sys_sensors == [i \in 1..Len(cfg.sensors) |-> BuildSensorOf(cfg.sensors[i])]
    IN  [i \in 1..Len(cfg.outputs) |->
            ResolveOutput(cfg.outputs[i], sys_sensors, sys_disturbances)]

(***************************************************************************)
(* Output::evaluate (lib.rs 315-326) and System::evaluate (lib.rs 364-374).*)
(* The outputs are walked by a sequential iterator; the sensors of one     *)
(* output are mapped in parallel, one task per sensor, and rayon's         *)
(* collect() joins the tasks' vectors in the order of the sensors.         *)
(***************************************************************************)
RECURSIVE FlattenFrom(_, _)
FlattenFrom(filled, k) ==
    IF k > Len(filled) THEN <<>> ELSE filled[k][1] \o FlattenFrom(filled, k + 1)

RECURSIVE FlattenInOrder(_, _)
FlattenInOrder(filled, done) ==
    IF done = <<>> THEN <<>> ELSE filled[Head(done)][1] \o FlattenInOrder(filled, Tail(done))

\* A collect() that appends the tasks' vectors as the tasks complete.
FlatCollectByCompletion(filled, done) == FlattenInOrder(filled, done)

\* lib.rs 318-322: par_iter().flat_map(..).collect()
FlatCollect(filled, done) == FlattenFrom(filled, 1)

\* lib.rs 335-340
NewFromOutput(output) == [id |-> output.id, values |-> <<>>]

\* A results vector that ends up in reverse.
PushResultFront(rs, r) == <<r>> \o rs

\* lib.rs 367-371: the results are collected in iteration order
PushResult(rs, r) == Append(rs, r)

\* config.rs 143-227
ToSystemStep ==
    /\ pc = "config"
    /\ system' = ToSystem(config)
    /\ pc' = "ready"
    /\ UNCHANGED <<config, cur, slots, order, results, zvars, gvars, mvars, tvars>>

\* lib.rs 365-369: System::evaluate starts its iteration over the outputs
SystemEvaluate ==
    /\ pc = "ready"
    /\ results' = <<>>
    /\ cur' = 1
    /\ pc' = IF Len(system) = 0 THEN "done" ELSE "output"
    /\ UNCHANGED <<config, system, slots, order, zvars, gvars, mvars, tvars>>

\* lib.rs 317-319: Output::evaluate starts the parallel iteration over its sensors
OutputFork ==
    /\ pc = "output"
    /\ slots' = [k \in 1..Len(system[cur].sensors) |-> <<>>]
    /\ order' = <<>>
    /\ pc' = "sensors"
    /\ UNCHANGED <<config, system, cur, results, zvars, gvars, mvars, tvars>>

\* lib.rs 320-321: the closure of one sensor
SensorTask ==
    /\ pc = "sensors"
    /\ \E k \in 1..Len(slots) :
          /\ slots[k] = <<>>
          /\ slots' = [slots EXCEPT ![k] =
                          <<MetricEvaluate(system[cur].metric, system[cur].sensors[k],
                                           system[cur].disturbances)>>]
          /\ order' = Append(order, k)
    /\ UNCHANGED <<pc, config, system, cur, results, zvars, gvars, mvars, tvars>>

\* lib.rs 322-324 and 370-371: collect(), result.values = values, and the
\* result joins the results of System::evaluate
OutputJoin ==
    /\ pc = "sensors"
    /\ \A k \in 1..Len(slots) : slots[k] # <<>>
    /\ results' = PushResult(results,
                     [NewFromOutput(system[cur]) EXCEPT !.values = FlatCollect(slots, order)])
    /\ cur' = cur + 1
    /\ pc' = IF cur = Len(system) THEN "done" ELSE "output"
    /\ UNCHANGED <<config, system, slots, order, zvars, gvars, mvars, tvars>>

EIdle ==
    /\ pc = "idle"
    /\ config = [disturbances |-> <<>>, sensors |-> <<>>, outputs |-> <<>>]
    /\ system = <<>>
    /\ cur = 0
    /\ slots = <<>>
    /\ order = <<>>
    /\ results = <<>>

\* The sensor descriptions of a configuration of ns sensors: kinds alternate from
\* `first`, every grid is 1 x 1 or empty as `grids` says, ids are s1, s2, ...
SensorLayout(ns, first, grids) ==
    [i \in 1..ns |->
        [id |-> SensorIdSeq[((i - 1) % 4) + 1],
         kind |-> IF (i % 2 = 1) = (first = "Shwfs") THEN "Shwfs" ELSE "Imager",
         n |-> CASE grids = "empty" -> 0 [] grids = "unit" -> 1 [] OTHER -> i % 2,
         spacing |-> 2, centre |-> <<0, 0>>, rot |-> 0]]

RECURSIVE IdsOf(_, _)
\* The ids of the objects whose index is in `chosen`, in the objects' order.
IdsOf(objects, chosen) ==
    IF objects = <<>> THEN <<>>
    ELSE IdsOf(SubSeq(objects, 1, Len(objects) - 1), chosen)
            \o (IF Len(objects) \in chosen THEN <<objects[Len(objects)].id>> ELSE <<>>)

\* The configurations System::evaluate is run on: up to MaxOutputs outputs, each
\* naming any subset of the sensors and all the disturbances; one metric.
EInit ==
    /\ pc = "config"
    /\ \E ds \in {<<>>, <<DistInput(1), DistInput(2)>>},
          ns \in 0..MaxSensors, first \in SensorKinds, grids \in {"empty", "unit", "mixed"},
          no \in 0..MaxOutputs, metric \in Metrics :
          LET ss == SensorLayout(ns, first, grids)
          IN  \E pick \in [1..no -> SUBSET (1..ns)] :
                 config = [disturbances |-> ds,
                           sensors |-> ss,
                           outputs |-> [i \in 1..no |->
                                           [id |-> OutputIdSeq[((i - 1) % 4) + 1],
                                            sensors |-> IdsOf(ss, pick[i]),
                                            disturbances |-> IdsOf(ds, 1..Len(ds)),
                                            metric |-> metric]]]
    /\ system = <<>>
    /\ cur = 0
    /\ slots = <<>>
    /\ order = <<>>
    /\ results = <<>>

\* The configurations to_system is run on alone: sensors and disturbances with
\* any ids (repeated or not), one output with any id lists.
RInit ==
    /\ pc = "config"
    /\ \E sids \in SeqsUpTo(SensorIds, MaxSensors), dids \in SeqsUpTo(DistIds, MaxDists),
          srefs \in SeqsUpTo(SensorIds, MaxRefs), drefs \in SeqsUpTo(DistIds, MaxRefs) :
          config = [disturbances |-> [i \in 1..Len(dids) |-> [DistInput(i) EXCEPT !.id = dids[i]]],
                    sensors |-> [i \in 1..Len(sids) |->
                                    [SensorLayout(Len(sids), "Shwfs", "unit")[i]
                                        EXCEPT !.id = sids[i]]],
                    outputs |-> <<[id |-> "o1", sensors |-> srefs, disturbances |-> drefs,
                                   metric |-> "WafefrontError"]>>]
    /\ system = <<>>
    /\ cur = 0
    /\ slots = <<>>
    /\ order = <<>>
    /\ results = <<>>

\* The id lists a configuration declares its n disturbances with: all distinct,
\* or all the same.
DeclaredDistIds(n) ==
    {[i \in 1..n |-> DistIdSeq[((i - 1) % 4) + 1]], [i \in 1..n |-> "d1"]}

\* The configurations to_system and then System::evaluate are run on: sensors
\* with any ids (repeated or not), alternately a Shwfs and an Imager, and one
\* output with any id lists.
BInit ==
    /\ pc = "config"
    /\ \E sids \in SeqsUpTo(SensorIds, MaxSensors), nd \in 0..MaxDists,
          srefs \in SeqsUpTo(SensorIds, MaxRefs), drefs \in SeqsUpTo(DistIds, MaxRefs) :
          \E dids \in DeclaredDistIds(nd) :
             config = [disturbances |-> [i \in 1..nd |-> [DistInput(i) EXCEPT !.id = dids[i]]],
                       sensors |-> [i \in 1..Len(sids) |->
                                       [SensorLayout(Len(sids), "Shwfs", "unit")[i]
                                           EXCEPT !.id = sids[i]]],
                       outputs |-> <<[id |-> "o1", sensors |-> srefs, disturbances |-> drefs,
                                      metric |-> "WafefrontError"]>>]
    /\ system = <<>>
    /\ cur = 0
    /\ slots = <<>>
    /\ order = <<>>
    /\ results = <<>>

(***************************************************************************)
(* System::evaluate called repeatedly on one System (main.rs 45 calls it   *)
(* once; the System is borrowed, so it can be called again).  The System   *)
(* has one Output of one Sensor with the MeasurementVector metric, whose   *)
(* Shwfs arm sums a probe's samples with rayon's parallel sum (lib.rs      *)
(* 290-294) and whose Imager arm sums them with a sequential one (lib.rs   *)
(* 302-306).                                                               *)
(*                                                                         *)
(* The f64 values of this part are [hi, lo], the number hi * 2^60 + lo     *)
(* with small integers hi and lo (|hi| < 2^10, |lo| < 64) of which one is  *)
(* zero.  Between 2^59 and 2^70 consecutive f64 values are at least 128    *)
(* apart, so the f64 nearest to hi * 2^60 + lo with hi # 0 is hi * 2^60.   *)
(***************************************************************************)
Wide(hi, lo) == [hi |-> hi, lo |-> lo]

\* The f64 nearest to hi * 2^60 + lo.
Round64(hi, lo) == IF hi # 0 THEN Wide(hi, 0) ELSE Wide(0, lo)

\* f64 addition: the exact sum, rounded.
WAdd(x, y) == Round64(x.hi + y.hi, x.lo + y.lo)

\* The disturbance with the hi parts (the lo parts) of the coefficients.
HiPart(dist) == [dist EXCEPT !.coeffs = [i \in 1..Len(dist.coeffs) |-> dist.coeffs[i].hi]]

LoPart(dist) == [dist EXCEPT !.coeffs = [i \in 1..Len(dist.coeffs) |-> dist.coeffs[i].lo]]

\* lib.rs 293, 305: meas.sample(dist.as_ref()); the sample is linear in the
\* coefficients.
WideSample(meas, dist) ==
    Round64(MeasurementSample(meas, HiPart(dist)), MeasurementSample(meas, LoPart(dist)))

\* The samples a probe's closure sums, in the order of the disturbances.
WideSamples(meas, disturbances) ==
    [i \in 1..Len(disturbances) |-> WideSample(meas, disturbances[i])]

RECURSIVE FoldSum(_, _, _)
\* Iterator::sum over xs[lo..hi] : 0.0 + xs[lo] + ... + xs[hi], left to right
\* (lib.rs 302-306, and the leaves of the parallel sum).
FoldSum(xs, lo, hi) ==
    IF hi < lo THEN Wide(0, 0) ELSE WAdd(FoldSum(xs, lo, hi - 1), xs[hi])

Max(a, b) == IF a >= b THEN a ELSE b

RECURSIVE RightHalves(_, _)
\* The pieces xs[mid..hi] that the halving of xs[lo..hi] can hand to join as its
\* second job, which another thread may steal.
RightHalves(lo, hi) ==
    LET len == hi - lo + 1
        mid == lo + len \div 2
    IN  IF len < 2 THEN {}
        ELSE {<<mid, hi>>} \cup RightHalves(lo, mid - 1) \cup RightHalves(mid, hi)

RECURSIVE BridgeSum(_, _, _, _, _, _, _)
\* rayon's bridge of an indexed producer, driving the sum of lib.rs 290-294 over
\* xs[lo..hi].  A piece of two items or more is split in halves while the
\* splitter allows it: it starts with current_num_threads() splits, halves them
\* at every split, and is refilled when the piece was stolen.  The halves are
\* summed by join and their sums added; a piece that is not split is folded.
BridgeSum(xs, lo, hi, splits, migrated, threads, stolen) ==
    LET len == hi - lo + 1
        mid == lo + len \div 2
        try_split == len \div 2 >= 1 /\ (migrated \/ splits > 0)
        left_splits == IF migrated THEN Max(threads, splits \div 2) ELSE splits \div 2
    IN  IF try_split
        THEN WAdd(BridgeSum(xs, lo, mid - 1, left_splits, FALSE, threads, stolen),
                  BridgeSum(xs, mid, hi, left_splits, <<mid, hi>> \in stolen, threads, stolen))
        ELSE FoldSum(xs, lo, hi)

\* lib.rs 290-294: disturbances.clone().into_par_iter().map(..).sum(), under a
\* schedule in which the pieces of `stolen` were stolen.
RayonSum(xs, threads, stolen) == BridgeSum(xs, 1, Len(xs), threads, FALSE, threads, stolen)

\* The schedules of one parallel sum over n items: nothing is stolen in a pool
\* of one thread.
Schedules(n, threads) == IF threads < 2 THEN {{}} ELSE SUBSET RightHalves(1, n)

\* The disturbances of the repeated calls: piston and tip of one amplitude each,
\* radius 2, so that the x-slope probe and the phase probe at the origin sample
\* the amplitude itself.  The p-th amplitude is 2^60, the q-th -2^60, the
\* others 1.
WideDisturbance(i, p, q) ==
    LET c == CASE i = p -> Wide(1, 0) [] i = q /\ i # p -> Wide(-1, 0) [] OTHER -> Wide(0, 1)
    IN  NewZernike(DistIdSeq[((i - 1) % 4) + 1], <<c, c>>, 2, 0)

TInit ==
    /\ tpc = "ready"
    /\ tthreads \in 1..MaxThreads
    /\ \E kind \in SensorKinds, n \in 0..MaxTerms :
          \E p \in 0..n, q \in 0..n :
             tsystem = <<[id |-> "o1",
                          sensors |-> <<BuildSensorOf([id |-> "s1", kind |-> kind, n |-> 1,
                                                       spacing |-> 2, centre |-> <<0, 0>>,
                                                       rot |-> 0])>>,
                          disturbances |-> [i \in 1..n |-> WideDisturbance(i, p, q)],
                          metric |-> "MeasurementVector"]>>
    /\ tslots = <<>>
    /\ tresults = <<>>

\* lib.rs 365-369, 317-321, 287-288 and 299-300: System::evaluate reaches, through
\* Output::evaluate and Metric::evaluate, the par_iter() over the probes
CallEvaluate ==
    /\ tpc = "ready"
    /\ Len(tresults) < MaxCalls
    /\ tslots' = [k \in 1..Len(tsystem[1].sensors[1].measurements) |-> <<>>]
    /\ tpc' = "running"
    /\ UNCHANGED <<tthreads, tsystem, tresults, zvars, gvars, mvars, evars>>

\* lib.rs 289-295: the closure of one Shwfs probe, a parallel sum
ProbeParSum ==
    /\ tpc = "running"
    /\ tsystem[1].sensors[1].kind = "Shwfs"
    /\ \E k \in 1..Len(tslots) :
          /\ tslots[k] = <<>>
          /\ \E stolen \in Schedules(Len(tsystem[1].disturbances), tthreads) :
                tslots' = [tslots EXCEPT ![k] =
                              <<RayonSum(WideSamples(tsystem[1].sensors[1].measurements[k],
                                                     tsystem[1].disturbances),
                                         tthreads, stolen)>>]
    /\ UNCHANGED <<tpc, tthreads, tsystem, tresults, zvars, gvars, mvars, evars>>

\* lib.rs 301-307: the closure of one Imager probe, a sequential sum
ProbeSeqSum ==
    /\ tpc = "running"
    /\ tsystem[1].sensors[1].kind = "Imager"
    /\ \E k \in 1..Len(tslots) :
          /\ tslots[k] = <<>>
          /\ tslots' = [tslots EXCEPT ![k] =
                           <<FoldSum(WideSamples(tsystem[1].sensors[1].measurements[k],
                                                 tsystem[1].disturbances),
                                     1, Len(tsystem[1].disturbances))>>]
    /\ UNCHANGED <<tpc, tthreads, tsystem, tresults, zvars, gvars, mvars, evars>>

\* lib.rs 296 and 308, 322-324, 370-371: the collect() of the probes, of the
\* Output's one sensor and of the System's one Output
ReturnResults ==
    /\ tpc = "running"
    /\ \A k \in 1..Len(tslots) : tslots[k] # <<>>
    /\ tresults' = Append(tresults,
                      PushResult(<<>>, [NewFromOutput(tsystem[1])
                                           EXCEPT !.values = FlatCollect(<<<<CollectSlots(tslots)>>>>, <<1>>)]))
    /\ tpc' = "ready"
    /\ UNCHANGED <<tthreads, tsystem, tslots, zvars, gvars, mvars, evars>>

TIdle ==
    /\ tpc = "idle"
    /\ tthreads = 0
    /\ tsystem = <<>>
    /\ tslots = <<>>
    /\ tresults = <<>>

(***************************************************************************)
(* Specifications.                                                         *)
(***************************************************************************)
\* System::evaluate on a configuration resolved by to_system.
Next == ToSystemStep \/ SystemEvaluate \/ OutputFork \/ SensorTask \/ OutputJoin

Init == EInit /\ ZIdle /\ GIdle /\ MIdle /\ TIdle

Spec == Init /\ [][Next]_vars

\* Config::to_system alone.
NextResolve == ToSystemStep

InitResolve == RInit /\ ZIdle /\ GIdle /\ MIdle /\ TIdle

SpecResolve == InitResolve /\ [][NextResolve]_vars

\* Config::to_system on any id lists, then System::evaluate.
InitBind == BInit /\ ZIdle /\ GIdle /\ MIdle /\ TIdle

SpecBind == InitBind /\ [][Next]_vars

\* Disturbance::new_zernike alone.
NextZernike == BuildZernike

InitZernike == ZInit /\ GIdle /\ MIdle /\ EIdle /\ TIdle

SpecZernike == InitZernike /\ [][NextZernike]_vars

\* The sensor builders alone.
NextSensor == BuildShwfs \/ BuildImager

InitSensor == GInit /\ ZIdle /\ MIdle /\ EIdle /\ TIdle

SpecSensor == InitSensor /\ [][NextSensor]_vars

\* Metric::evaluate alone.
NextMetric ==
    \/ EvalWavefrontErrorShwfs
    \/ EvalWavefrontErrorImager
    \/ ForkProbes
    \/ ProbeTask
    \/ CollectProbes

InitMetric == MInit /\ ZIdle /\ GIdle /\ EIdle /\ TIdle

SpecMetric == InitMetric /\ [][NextMetric]_vars

\* System::evaluate called repeatedly.
NextRepeat == CallEvaluate \/ ProbeParSum \/ ProbeSeqSum \/ ReturnResults

InitRepeat == TInit /\ ZIdle /\ GIdle /\ MIdle /\ EIdle

SpecRepeat == InitRepeat /\ [][NextRepeat]_vars

(***************************************************************************)
(* Claims about the constructors.                                          *)
(***************************************************************************)
\* The first len triples of the canonical ordering; radial order len + 1 holds
\* (len + 1)(len + 2)/2 >= len triples.
CanonicalPrefix(len) == SubSeq(ZernikeJnm(len + 1), 1, len)

Triangular(N) == (N * (N + 1)) \div 2

C6_RadialOrderMinimal ==
    zpc = "built" =>
        LET L == Len(zdist.coeffs)
            N == MinimumRadialOrders(L)
        IN  /\ Len(zdist.jnm) = Triangular(N)
            /\ Triangular(N) >= L
            /\ (N > 0 => Triangular(N - 1) < L)
            /\ N = DocumentedRadialOrders(L)

\* The value of an evenly spread axis at index i of n (from 1), for the given
\* spacing: -spacing n/2 + spacing (i - 1/2).
AxisValue(n, spacing, i) == (spacing * (2 * i - 1 - n)) \div 2

\* The centre of row i, column j of the n x n Cartesian grid, offset and rotated.
GridCentre(n, spacing, centre, rot, i, j) ==
    Rotate(Vec2D(AxisValue(n, spacing, j) + centre[1], AxisValue(n, spacing, i) + centre[2]), rot)

\* C5, as claimed: the imager of grid dimension n has n*n probes, the probe of
\* row i, column j anchored at (x-spread[j], y-spread[i]) before offset and
\* rotation, so that for n >= 2 distinct rows have distinct y-coordinates.
C5_ImagerGridIsCartesian ==
    (gpc = "built" /\ gsensor.kind = "Imager") =>
        /\ Len(gsensor.measurements) = gin.n * gin.n
        /\ \A i, j \in 1..gin.n :
              gsensor.measurements[(i - 1) * gin.n + j].line
                  = GridCentre(gin.n, gin.spacing, gin.centre, gin.rot, i, j)

\* C7: a Shack-Hartmann sensor of grid dimension n has 2 n*n probes; probes
\* 1..n*n are the x-slope probes (gradient axis the rotated x direction) of the
\* grid centres in row-major order, probes n*n+1..2n*n the y-slope probes
\* (gradient axis a quarter turn further) of the same centres in the same order.
C7_ShwfsXThenY ==
    (gpc = "built" /\ gsensor.kind = "Shwfs") =>
        LET n == gin.n
            m == gsensor.measurements
        IN  /\ Len(m) = 2 * n * n
            /\ \A i, j \in 1..n :
                  LET k == (i - 1) * n + j
                  IN  /\ m[k].kind = "SlopeTwoEdge"
                      /\ m[k + n * n].kind = "SlopeTwoEdge"
                      /\ m[k].line = GridCentre(n, gin.spacing, gin.centre, gin.rot, i, j)
                      /\ m[k + n * n].line = m[k].line
                      /\ m[k].gradient_axis = Vec2D(Cos(gin.rot), Sin(gin.rot))
                      /\ m[k + n * n].gradient_axis = Vec2D(Cos(gin.rot + 1), Sin(gin.rot + 1))

\* C7 witness: a rotated, offset 2 x 2 Shack-Hartmann sensor with its 8 probes.
C7_Witness ==
    /\ gpc = "built"
    /\ gsensor.kind = "Shwfs"
    /\ gin.n = 2
    /\ gin.rot = 1
    /\ gin.centre = <<1, 0>>
    /\ Len(gsensor.measurements) = 8
    /\ gsensor.measurements[1].gradient_axis # gsensor.measurements[5].gradient_axis


(***************************************************************************)
(* Claims about Metric::evaluate.                                          *)
(***************************************************************************)
RECURSIVE SumSeq(_)
\* The sum of a sequence of integers.
SumSeq(q) == IF q = <<>> THEN 0 ELSE Head(q) + SumSeq(Tail(q))

\* The sum over the disturbances of one probe's samples.
ExpectedTotal(meas, dists) ==
    SumSeq([d \in 1..Len(dists) |-> MeasurementSample(meas, dists[d])])

\* sqrt(a / b), NaN for b = 0.
SqrtOfRatio(a, b) == IF b = 0 THEN NaN ELSE [Ratio(a, b) EXCEPT !.root = TRUE]

\* C3: MeasurementVector on a sensor of either kind returns one value per probe,
\* the k-th the sum over the bound disturbances of probe k's sample, whatever
\* the order in which the per-probe tasks complete: a slot filled while the
\* tasks run already holds its probe's sum, and the collected vector holds the
\* sums in probe order.
C3_MeasurementVectorPerProbe ==
    mmetric = "MeasurementVector" =>
        LET m == msensor.measurements
        IN  /\ mpc = "running" =>
                  /\ Len(mslots) = Len(m)
                  /\ \A k \in 1..Len(m) :
                        mslots[k] # <<>> => mslots[k] = <<F(ExpectedTotal(m[k], mdists))>>
            /\ mpc = "done" =>
                  /\ Len(mout) = Len(m)
                  /\ \A k \in 1..Len(m) : mout[k] = F(ExpectedTotal(m[k], mdists))

\* C3 witness: the vector of a 2 x 2 Shack-Hartmann sensor under two
\* disturbances, 8 values, the x-slopes differing from the y-slopes.
C3_Witness ==
    /\ mpc = "done"
    /\ mmetric = "MeasurementVector"
    /\ msensor.kind = "Shwfs"
    /\ Len(mdists) = 2
    /\ Len(mout) = 8
    /\ mout[1] # mout[8]

Shifts == -2..2

\* C8: WavefrontError returns one scalar per sensor: for a Shack-Hartmann sensor
\* the square root of the mean over the probes of the squared probe total, for
\* an imager the square root of that mean less the square of the mean total
\* (S2/n - (S1/n)^2 = (n S2 - S1^2)/n^2).  Adding a constant c to every probe
\* total leaves the imager's radicand as it is, and moves the Shack-Hartmann
\* radicand by c (2 S1 + n c) / n: it changes for every c other than 0 and
\* -2 S1 / n.
C8_WavefrontErrorVariants ==
    (mpc = "done" /\ mmetric = "WavefrontError") =>
        LET t == ProbeTotals(msensor, mdists)
            n == Len(t)
            S1 == SumSeq(t)
            S2 == SumSeq([k \in 1..n |-> t[k] * t[k]])
        IN  /\ n = Len(msensor.measurements)
            /\ \A k \in 1..n : t[k] = ExpectedTotal(msensor.measurements[k], mdists)
            /\ Len(mout) = 1
            /\ msensor.kind = "Shwfs" => mout[1] = SqrtOfRatio(S2, n)
            /\ msensor.kind = "Imager" => mout[1] = SqrtOfRatio(n * S2 - S1 * S1, n * n)
            /\ \A c \in Shifts :
                  LET u == [k \in 1..n |-> t[k] + c]
                  IN  n > 0 =>
                        /\ ImagerWavefrontError(u) = ImagerWavefrontError(t)
                        /\ (ShwfsWavefrontError(u) = ShwfsWavefrontError(t))
                              <=> (c * (2 * S1 + n * c) = 0)

\* C8 witness: an imager of 4 probes whose totals have a nonzero mean and a
\* nonzero spread; the Shack-Hartmann reduction of the same totals differs.
C8_Witness ==
    /\ mpc = "done"
    /\ mmetric = "WavefrontError"
    /\ msensor.kind = "Imager"
    /\ Len(msensor.measurements) = 4
    /\ ~IsNaN(mout[1])
    /\ mout[1].num > 0
    /\ mout # ShwfsWavefrontError(ProbeTotals(msensor, mdists))

(***************************************************************************)
(* Claims about System::evaluate and Output::evaluate.                     *)
(***************************************************************************)
\* C1: System::evaluate returns exactly one SimulationResult per Output, the
\* i-th carrying the i-th Output's id; while it runs, the results gathered are
\* those of the outputs already evaluated; an Output bound to no sensor has its
\* entry, with an empty value list.
C1_OneResultPerOutput ==
    /\ pc \in {"output", "sensors"} => Len(results) = cur - 1
    /\ pc = "done" => Len(results) = Len(system)
    /\ pc \in {"output", "sensors", "done"} =>
          \A i \in 1..Len(results) :
              /\ results[i].id = system[i].id
              /\ system[i].sensors = <<>> => results[i].values = <<>>

\* C1 witness: two outputs, the first bound to no sensor, the second to one
\* with values; both have their entry.
C1_Witness ==
    /\ pc = "done"
    /\ Len(system) = 2
    /\ system[1].sensors = <<>>
    /\ system[2].sensors # <<>>
    /\ Len(results) = 2
    /\ results[1].values = <<>>
    /\ results[2].values # <<>>
    /\ results[1].id # results[2].id

RECURSIVE ConcatAll(_)
ConcatAll(lists) == IF lists = <<>> THEN <<>> ELSE Head(lists) \o ConcatAll(Tail(lists))

\* The value list of an Output: its sensors' result lists, concatenated in the
\* order the Output holds its sensors.
ExpectedValues(output) ==
    ConcatAll([k \in 1..Len(output.sensors) |->
                  MetricEvaluate(output.metric, output.sensors[k], output.disturbances)])

\* C2: the per-sensor evaluations of Output::evaluate run as tasks that complete
\* in any order, and the value list of every Output evaluated is the
\* concatenation of its sensors' result lists in the order of the sensors.
C2_ValuesInSensorOrder ==
    pc \in {"output", "sensors", "done"} =>
        /\ \A i \in 1..Len(results) : results[i].values = ExpectedValues(system[i])
        /\ pc = "sensors" =>
              /\ Len(slots) = Len(system[cur].sensors)
              /\ \A k \in 1..Len(slots) :
                    (slots[k] # <<>>) <=> (\E p \in 1..Len(order) : order[p] = k)

\* C2 witness: an Output of two sensors whose second sensor completed first and
\* whose result lists differ; the values are the first sensor's, then the second's.
C2_Witness ==
    /\ pc = "done"
    /\ order = <<2, 1>>
    /\ slots[1][1] # slots[2][1]
    /\ slots[1][1] # <<>>
    /\ slots[2][1] # <<>>
    /\ results[Len(results)].values = slots[1][1] \o slots[2][1]

\* The ids of the configured sensors whose grid dimension is 0.
EmptyGridIds == {config.sensors[j].id : j \in {l \in 1..Len(config.sensors) : config.sensors[l].n = 0}}

OnlyEmptyGrids(output) ==
    /\ output.sensors # <<>>
    /\ \A k \in 1..Len(output.sensors) : output.sensors[k].id \in EmptyGridIds

\* C9, as claimed: a sensor of either kind built with grid dimension 0 has no
\* probes, every metric evaluated on it yields an empty list, and an Output
\* bound only to such sensors has an empty value list.
C9_EmptyGridGivesEmptyValues ==
    pc \in {"ready", "output", "sensors", "done"} =>
        /\ \A i \in 1..Len(system) : \A k \in 1..Len(system[i].sensors) :
              system[i].sensors[k].id \in EmptyGridIds
                  => system[i].sensors[k].measurements = <<>>
        /\ pc = "sensors" =>
              \A k \in 1..Len(slots) :
                  (slots[k] # <<>> /\ system[cur].sensors[k].id \in EmptyGridIds)
                      => slots[k][1] = <<>>
        /\ \A i \in 1..Len(results) : OnlyEmptyGrids(system[i]) => results[i].values = <<>>

\* C9, amended: a sensor of either kind built with grid dimension 0 has no
\* probes and no metric evaluated on it fails; MeasurementVector yields an empty
\* list, WavefrontError a list of one NaN (0.0 / 0.0); an Output bound only to
\* such sensors has an empty value list under MeasurementVector and one NaN per
\* sensor under WavefrontError.
C9_EmptyGridPropagates ==
    pc \in {"ready", "output", "sensors", "done"} =>
        /\ \A i \in 1..Len(system) : \A k \in 1..Len(system[i].sensors) :
              system[i].sensors[k].id \in EmptyGridIds
                  => system[i].sensors[k].measurements = <<>>
        /\ pc = "sensors" =>
              \A k \in 1..Len(slots) :
                  (slots[k] # <<>> /\ system[cur].sensors[k].id \in EmptyGridIds)
                      => slots[k][1] = IF system[cur].metric = "MeasurementVector"
                                       THEN <<>> ELSE <<NaN>>
        /\ \A i \in 1..Len(results) :
              OnlyEmptyGrids(system[i]) =>
                  results[i].values = IF system[i].metric = "MeasurementVector" THEN <<>>
                                      ELSE [k \in 1..Len(system[i].sensors) |-> NaN]

\* C9 witness: a WavefrontError Output bound to an empty Shack-Hartmann sensor
\* and an empty imager, evaluated to two NaN.
C9_Witness ==
    /\ pc = "done"
    /\ \E i \in 1..Len(results) :
          /\ OnlyEmptyGrids(system[i])
          /\ Len(system[i].sensors) = 2
          /\ system[i].sensors[1].kind # system[i].sensors[2].kind
          /\ system[i].metric = "WavefrontError"
          /\ results[i].values = <<NaN, NaN>>

(***************************************************************************)
(* Claims about Config::to_system.                                         *)
(***************************************************************************)
IdSet(ids) == {ids[r] : r \in 1..Len(ids)}

\* `resolved` holds exactly the objects of `global` whose id is listed in `refs`.
ExactlyListed(resolved, global, refs) ==
    LET listed == {i \in 1..Len(global) : global[i].id \in IdSet(refs)}
    IN  /\ Len(resolved) = Cardinality(listed)
        /\ \A i \in listed : \E k \in 1..Len(resolved) : resolved[k] = global[i]
        /\ \A k \in 1..Len(resolved) : \E i \in listed : resolved[k] = global[i]

DistinctIds(objects) ==
    \A i, j \in 1..Len(objects) : objects[i].id = objects[j].id => i = j

\* The refs name an id that no object carries.
NamesMissing(global, refs) ==
    \E r \in 1..Len(refs) : \A i \in 1..Len(global) : global[i].id # refs[r]

\* The ids `resolved` carries are a proper subset of the ids listed.
FewerIds(resolved, refs) ==
    LET got == {resolved[k].id : k \in 1..Len(resolved)}
    IN  got \subseteq IdSet(refs) /\ got # IdSet(refs)

\* `resolved` is shorter than the id list, and empty if no id matches.
SmallerThanRefs(resolved, global, refs) ==
    /\ Len(resolved) < Len(refs)
    /\ (\A i \in 1..Len(global) : global[i].id \notin IdSet(refs)) => resolved = <<>>

\* C10: to_system resolves an Output whose sensor or disturbance id list names
\* an id no global object has without failing (to_system has no failing path:
\* every Output of the configuration is resolved), the Output's subset holds exactly the global objects whose id is in the list,
\* and it is smaller than the id list: the ids it carries are a proper subset of
\* the ids listed (none if no id matches), and, the ids of the global objects
\* being distinct as a configuration requires (config.rs 37, 44, 58, 69), it has
\* fewer objects than the list has ids.
C10_DanglingIdsShrink ==
    pc = "ready" =>
          /\ Len(system) = Len(config.outputs)
          /\ \A i \in 1..Len(system) :
                LET gs == [j \in 1..Len(config.sensors) |-> BuildSensorOf(config.sensors[j])]
                    gd == [j \in 1..Len(config.disturbances) |->
                              BuildDisturbanceOf(config.disturbances[j])]
                    o == config.outputs[i]
                IN  /\ ExactlyListed(system[i].sensors, gs, o.sensors)
                    /\ ExactlyListed(system[i].disturbances, gd, o.disturbances)
                    /\ NamesMissing(gs, o.sensors) => FewerIds(system[i].sensors, o.sensors)
                    /\ NamesMissing(gd, o.disturbances)
                          => FewerIds(system[i].disturbances, o.disturbances)
                    /\ (NamesMissing(gs, o.sensors) /\ DistinctIds(gs))
                          => SmallerThanRefs(system[i].sensors, gs, o.sensors)
                    /\ (NamesMissing(gd, o.disturbances) /\ DistinctIds(gd))
                          => SmallerThanRefs(system[i].disturbances, gd, o.disturbances)

\* C10 witness: the output names sensors s2 and s1 where only s1 exists, and
\* disturbance d2 where only d1 exists: one sensor and no disturbance are bound.
C10_Witness ==
    /\ pc = "ready"
    /\ config.outputs[1].sensors = <<"s2", "s1">>
    /\ Len(config.sensors) = 1
    /\ config.sensors[1].id = "s1"
    /\ Len(system[1].sensors) = 1
    /\ config.outputs[1].disturbances = <<"d2">>
    /\ Len(config.disturbances) = 1
    /\ config.disturbances[1].id = "d1"
    /\ system[1].disturbances = <<>>

(***************************************************************************)
(* Claims about repeated evaluation.                                       *)
(***************************************************************************)
\* C11: two evaluate() calls on the same unmodified System return identical
\* results collections (the same ids and the same value lists in the same
\* order), whatever the number of threads and the schedule of the parallel
\* tasks, the parallel sum over the disturbances inside a probe included.
C11_RepeatedEvaluateIdentical ==
    \A a \in 1..Len(tresults), b \in 1..Len(tresults) : tresults[a] = tresults[b]

\* Where no piece can be stolen the calls do agree: on an Imager, whose probes
\* are summed sequentially, and on a Shwfs in a pool of one thread.
SequentialSumsAgree ==
    (/\ Len(tresults) = MaxCalls
     /\ (tsystem[1].sensors[1].kind = "Imager" \/ tthreads = 1))
        => tresults[1] = tresults[2]

(***************************************************************************)
(* Claims about the order of the objects an Output is bound to.            *)
(***************************************************************************)
\* The positions of `global` whose object carries an id of `refs`.
ListedPositions(global, refs) == {i \in 1..Len(global) : global[i].id \in IdSet(refs)}

\* `resolved` is `global` restricted to the listed positions, each once, in
\* the order of `global`.
InGlobalOrder(resolved, global, refs) ==
    LET kept == ListedPositions(global, refs)
    IN  /\ Len(resolved) = Cardinality(kept)
        /\ \E at \in [1..Len(resolved) -> kept] :
              /\ \A k, l \in 1..Len(resolved) : k < l => at[k] < at[l]
              /\ \A k \in 1..Len(resolved) : resolved[k] = global[at[k]]

RECURSIVE GlobalOrderValues(_, _, _, _, _)
\* The metric's values of the listed sensors among the first `upto` of `global`,
\* in the order of `global`.
GlobalOrderValues(global, refs, metric, disturbances, upto) ==
    IF upto = 0 THEN <<>>
    ELSE GlobalOrderValues(global, refs, metric, disturbances, upto - 1)
            \o (IF global[upto].id \in IdSet(refs)
                THEN MetricEvaluate(metric, global[upto], disturbances)
                ELSE <<>>)

\* C12: the sensor list and the disturbance list resolved for an Output are
\* subsequences of the global lists in global declaration order, whatever the
\* order in which the Output's id list writes the ids: an id written twice
\* binds its object once, and every global object carrying a listed id is
\* bound.  Hence the values of Output::evaluate follow the global sensor
\* order, not the order of the ids written in the Output.
C12_BoundInGlobalOrder ==
    pc \notin {"config", "idle"} =>
        \A i \in 1..Len(system) :
            LET gs == [j \in 1..Len(config.sensors) |-> BuildSensorOf(config.sensors[j])]
                gd == [j \in 1..Len(config.disturbances) |->
                          BuildDisturbanceOf(config.disturbances[j])]
                o == config.outputs[i]
            IN  /\ InGlobalOrder(system[i].sensors, gs, o.sensors)
                /\ InGlobalOrder(system[i].disturbances, gd, o.disturbances)
                /\ i <= Len(results) =>
                      results[i].values =
                         GlobalOrderValues(gs, o.sensors, system[i].metric,
                                           system[i].disturbances, Len(gs))

\* C12 witness: the output writes s2 before s1 and the configuration declares
\* s1 (a Shwfs) before s2 (an Imager); the evaluated values are the Shwfs's
\* then the Imager's, and they differ.
C12_Witness ==
    /\ pc = "done"
    /\ config.outputs[1].sensors = <<"s2", "s1">>
    /\ Len(config.sensors) = 2
    /\ config.sensors[1].id = "s1"
    /\ config.sensors[2].id = "s2"
    /\ system[1].sensors[1].id = "s1"
    /\ system[1].sensors[2].id = "s2"
    /\ Len(system[1].disturbances) >= 1
    /\ Len(results) = 1
    /\ Len(results[1].values) = 2
    /\ results[1].values[1] = MetricEvaluate(system[1].metric, system[1].sensors[1],
                                             system[1].disturbances)[1]
    /\ results[1].values[1] # results[1].values[2]
====
